---- MODULE Spec2Model ----
(***************************************************************************)
(* Model of the Google Analytics MCP server: the request-scoped credential *)
(* holder (a ContextVar), the credential resolver, the property-identifier *)
(* normalizer, the run_report request assembly and the HTTP front door     *)
(* mcp_endpoint.                                                           *)
(*                                                                         *)
(* Python strings are sequences of one-character strings.  An Optional     *)
(* value is a sequence of length at most one: None is <<>> and a present   *)
(* value x is <<x>>, so that the empty string and None stay distinct.      *)
(***************************************************************************)
EXTENDS Integers, Sequences, FiniteSets, TLC

VARIABLES
    rnArg,      \* argument handed to construct_property_rn
    rnRes,      \* its outcome, or Pending before the call
    queued,     \* arguments of the run_report invocation about to be made
    adc,        \* whether google.auth.default() finds ambient credentials
    ctx,        \* value of _current_access_token in each execution context
    pc,         \* where the call running in each context is suspended
    call,       \* what the call running (or last run) in each context did
    resp        \* the outcome the caller of that call received

vars == <<rnArg, rnRes, queued, adc, ctx, pc, call, resp>>

---------------------------------------------------------------------------
(* Bounds *)

\* longest free tail appended to a prefix when enumerating property strings
MaxTail == 3
\* integers handed to construct_property_rn range over -MaxInt .. MaxInt
MaxInt == 12

---------------------------------------------------------------------------
(* Optional values and Python string primitives *)

None == <<>>
Some(x) == <<x>>
IsNone(o) == o = <<>>
Val(o) == o[1]

DecimalDigits == <<"0", "1", "2", "3", "4", "5", "6", "7", "8", "9">>

\* the characters int() accepts as decimal digits
IsDecimal(c) == \E i \in 1..10 : DecimalDigits[i] = c

DigitVal(c) == (CHOOSE i \in 1..10 : DecimalDigits[i] = c) - 1

\* str.isdigit() is also true of digit characters that are not decimal,
\* such as the superscript two, which int() then rejects
IsDigitChar(c) == IsDecimal(c) \/ c = "^2"

IsSpace(c) == c = " "

\* str.isdigit(): non-empty and every character a digit
isdigit(s) == Len(s) > 0 /\ \A i \in 1..Len(s) : IsDigitChar(s[i])

\* str.startswith(prefix)
startswith(s, p) == Len(s) >= Len(p) /\ SubSeq(s, 1, Len(p)) = p

RECURSIVE lstrip(_)
lstrip(s) == IF Len(s) > 0 /\ IsSpace(s[1]) THEN lstrip(Tail(s)) ELSE s

RECURSIVE rstrip(_)
rstrip(s) ==
    IF Len(s) > 0 /\ IsSpace(s[Len(s)])
    THEN rstrip(SubSeq(s, 1, Len(s) - 1))
    ELSE s

\* str.strip()
strip(s) == rstrip(lstrip(s))

\* s.split("/")[-1]: what follows the last slash, or all of s without one
RECURSIVE LastSegment(_)
LastSegment(s) ==
    IF \E i \in 1..Len(s) : s[i] = "/"
    THEN LastSegment(Tail(s))
    ELSE s

\* int(s) for a string that passed isdigit(): the decimal value, or a
\* ValueError when some character is not a decimal digit
RECURSIVE DecimalValue(_)
DecimalValue(s) ==
    IF Len(s) = 0 THEN 0
    ELSE 10 * DecimalValue(SubSeq(s, 1, Len(s) - 1)) + DigitVal(s[Len(s)])

int(s) ==
    IF Len(s) > 0 /\ \A i \in 1..Len(s) : IsDecimal(s[i])
    THEN [ok |-> TRUE, num |-> DecimalValue(s)]
    ELSE [ok |-> FALSE, num |-> 0]

\* the decimal numeral of a natural number
RECURSIVE NatToStr(_)
NatToStr(n) ==
    IF n < 10 THEN <<DecimalDigits[n + 1]>>
    ELSE NatToStr(n \div 10) \o <<DecimalDigits[(n % 10) + 1]>>

\* format(n) of an int inside an f-string
IntToStr(n) == IF n < 0 THEN <<"-">> \o NatToStr(-n) ELSE NatToStr(n)

PropertiesPrefix == <<"p", "r", "o", "p", "e", "r", "t", "i", "e", "s", "/">>

---------------------------------------------------------------------------
(* construct_property_rn *)

\* Python values a caller can pass as the property
IntArg(n) == [kind |-> "int", num |-> n, text |-> <<>>]
BoolArg(b) == [kind |-> "bool", num |-> IF b THEN 1 ELSE 0, text |-> <<>>]
StrArg(s) == [kind |-> "str", num |-> 0, text |-> s]
OtherArg == [kind |-> "other", num |-> 0, text |-> <<>>]

ValueError == [ok |-> FALSE, err |-> "ValueError", rn |-> <<>>]
Returned(s) == [ok |-> TRUE, err |-> "", rn |-> s]

\* property_num after the isinstance chain: the Optional number, and whether
\* int() raised on the way
PropertyNum(v) ==
    IF v.kind = "int" THEN [raised |-> FALSE, num |-> Some(v.num)]
    ELSE IF v.kind = "bool" THEN [raised |-> FALSE, num |-> Some(v.num)]
    ELSE IF v.kind = "str" THEN
        LET s == strip(v.text) IN
        IF isdigit(s) THEN
            [raised |-> ~int(s).ok, num |-> Some(int(s).num)]
        ELSE IF startswith(s, PropertiesPrefix) THEN
            LET numeric_part == LastSegment(s) IN
            IF isdigit(numeric_part)
            THEN [raised |-> ~int(numeric_part).ok,
                  num |-> Some(int(numeric_part).num)]
            ELSE [raised |-> FALSE, num |-> None]
        ELSE [raised |-> FALSE, num |-> None]
    ELSE [raised |-> FALSE, num |-> None]

\* the f-string rendering of property_num: a bool prints as True or False
FormatNum(v, n) ==
    IF v.kind = "bool"
    THEN (IF n = 1 THEN <<"T", "r", "u", "e">> ELSE <<"F", "a", "l", "s", "e">>)
    ELSE IntToStr(n)

\* a normalizer that hands a prefixed string back as it was given
construct_property_rn_keep_text(v) ==
    LET p == PropertyNum(v) IN
    IF p.raised \/ IsNone(p.num) THEN ValueError
    ELSE IF v.kind = "str" /\ startswith(strip(v.text), PropertiesPrefix)
    THEN Returned(strip(v.text))
    ELSE Returned(PropertiesPrefix \o FormatNum(v, Val(p.num)))

construct_property_rn(v) ==
    LET p == PropertyNum(v) IN
    IF p.raised \/ IsNone(p.num) THEN ValueError
    ELSE Returned(PropertiesPrefix \o FormatNum(v, Val(p.num)))

---------------------------------------------------------------------------
(* Specification of the normalizer alone: every bounded input, applied once *)

Pending == [ok |-> FALSE, err |-> "pending", rn |-> <<>>]

TailAlphabet == {"0", "7", "a", "/", " ", "-", "^2"}

RECURSIVE StringsUpTo(_)
StringsUpTo(n) ==
    IF n = 0 THEN {<<>>}
    ELSE LET shorter == StringsUpTo(n - 1) IN
         shorter \cup {s \o <<c>> : s \in shorter, c \in TailAlphabet}

Heads ==
    { <<>>,
      PropertiesPrefix,
      <<" ">> \o PropertiesPrefix,
      SubSeq(PropertiesPrefix, 1, 10),
      <<"p", "r", "o", "p", "e", "r", "t", "y", "/">>,
      <<"1">> }

PropertyArgs ==
    {IntArg(n) : n \in (-MaxInt)..MaxInt}
        \cup {BoolArg(b) : b \in BOOLEAN}
        \cup {OtherArg}
        \cup {StrArg(h \o t) : h \in Heads, t \in StringsUpTo(MaxTail)}

InitRn ==
    /\ rnArg \in PropertyArgs
    /\ rnRes = Pending
    /\ queued = None
    /\ adc = TRUE
    /\ ctx = <<>>
    /\ pc = <<>>
    /\ call = <<>>
    /\ resp = <<>>

Normalize ==
    /\ rnRes = Pending
    /\ rnRes' = construct_property_rn(rnArg)
    /\ UNCHANGED <<rnArg, queued, adc, ctx, pc, call, resp>>

NextRn == Normalize

SpecRn == InitRn /\ [][NextRn]_vars

---------------------------------------------------------------------------
(* Request-scoped credential holder: the ContextVar _current_access_token.  *)
(* A ContextVar has one value per execution context; c maps each context    *)
(* to its value, None being the declared default.                           *)

Workers == {"w1", "w2"}

\* a single process-wide slot instead of a per-context one
set_access_token_shared(c, w, token) == [v \in DOMAIN c |-> Some(token)]

set_access_token(c, w, token) == [c EXCEPT ![w] = Some(token)]

get_access_token(c, w) == c[w]

\* a clear that leaves the slot as it was
clear_access_token_noop(c, w) == c

clear_access_token(c, w) == [c EXCEPT ![w] = None]

---------------------------------------------------------------------------
(* Credential resolver *)

READ_ONLY_ANALYTICS_SCOPE == "https://www.googleapis.com/auth/analytics.readonly"

\* Python truthiness of an Optional[str]
Truthy(o) == ~IsNone(o) /\ Len(Val(o)) > 0

NoCredential ==
    [kind |-> "none", token |-> <<>>, scopes |-> {}, ambient |-> FALSE]

\* a resolver that answers a failed ambient discovery with anonymous
\* credentials instead of raising
_create_credentials_anonymous(token, ambientOk) ==
    IF Truthy(token) THEN
        [err |-> "",
         cred |-> [kind |-> "oauth", token |-> Val(token),
                   scopes |-> {READ_ONLY_ANALYTICS_SCOPE}, ambient |-> FALSE]]
    ELSE
        [err |-> "",
         cred |-> [kind |-> IF ambientOk THEN "adc" ELSE "anonymous",
                   token |-> <<>>,
                   scopes |-> {READ_ONLY_ANALYTICS_SCOPE}, ambient |-> TRUE]]

\* the outcome of _create_credentials() when the holder yields `token` and
\* ambient discovery would succeed iff `ambientOk`; `ambient` records that
\* google.auth.default() was called
_create_credentials(token, ambientOk) ==
    IF Truthy(token) THEN
        [err |-> "",
         cred |-> [kind |-> "oauth", token |-> Val(token),
                   scopes |-> {READ_ONLY_ANALYTICS_SCOPE}, ambient |-> FALSE]]
    ELSE IF ambientOk THEN
        [err |-> "",
         cred |-> [kind |-> "adc", token |-> <<>>,
                   scopes |-> {READ_ONLY_ANALYTICS_SCOPE}, ambient |-> TRUE]]
    ELSE
        [err |-> "DefaultCredentialsError",
         cred |-> [NoCredential EXCEPT !.ambient = TRUE]]

---------------------------------------------------------------------------
(* run_report: request assembly up to the outbound call *)

\* data_v1beta.Dimension(name=...) and data_v1beta.Metric(name=...)
NameWrapper(n) == [name |-> n]

\* data_v1beta.DateRange(mapping): the mapping's fields, the rest default
DateRange(dr) ==
    [start_date |-> dr.start_date, end_date |-> dr.end_date, name |-> ""]

\* data_v1beta.FilterExpression(mapping) and data_v1beta.OrderBy(mapping)
FilterExpression(m) == [expression |-> m]
OrderBy(m) == [order |-> m]

\* the list comprehensions that wrap each element of an argument list
Names(s) == [i \in 1..Len(s) |-> NameWrapper(s[i])]
DateRanges(s) == [i \in 1..Len(s) |-> DateRange(s[i])]
OrderBys(s) == [i \in 1..Len(s) |-> OrderBy(s[i])]

\* Python truthiness of an Optional[int] and of an Optional collection
TruthyInt(o) == ~IsNone(o) /\ Val(o) # 0
TruthySeq(o) == ~IsNone(o) /\ Len(Val(o)) > 0

\* RunReportRequest(...) as run_report first constructs it.  Scalar fields
\* carry the proto3 default when never assigned; message fields are absent.
BaseRequest(rn, a) ==
    [property |-> rn,
     dimensions |-> Names(a.dimensions),
     metrics |-> Names(a.metrics),
     date_ranges |-> DateRanges(a.date_ranges),
     return_property_quota |-> a.return_property_quota,
     dimension_filter |-> None,
     metric_filter |-> None,
     order_bys |-> <<>>,
     limit |-> 0,
     offset |-> 0,
     currency_code |-> <<>>]

\* the assignments guarded by `is not None` for the two filters
WithOptionalFieldsIfNotNone(r, a) ==
    [r EXCEPT
        !.dimension_filter =
            IF ~IsNone(a.dimension_filter)
            THEN Some(FilterExpression(Val(a.dimension_filter))) ELSE @,
        !.metric_filter =
            IF ~IsNone(a.metric_filter)
            THEN Some(FilterExpression(Val(a.metric_filter))) ELSE @,
        !.order_bys =
            IF TruthySeq(a.order_bys)
            THEN OrderBys(Val(a.order_bys)) ELSE @,
        !.limit = IF TruthyInt(a.limit) THEN Val(a.limit) ELSE @,
        !.offset = IF TruthyInt(a.offset) THEN Val(a.offset) ELSE @,
        !.currency_code =
            IF TruthySeq(a.currency_code) THEN Val(a.currency_code) ELSE @]

\* the chain of `if <argument>:` assignments
WithOptionalFields(r, a) ==
    [r EXCEPT
        !.dimension_filter =
            IF TruthySeq(a.dimension_filter)
            THEN Some(FilterExpression(Val(a.dimension_filter))) ELSE @,
        !.metric_filter =
            IF TruthySeq(a.metric_filter)
            THEN Some(FilterExpression(Val(a.metric_filter))) ELSE @,
        !.order_bys =
            IF TruthySeq(a.order_bys)
            THEN OrderBys(Val(a.order_bys)) ELSE @,
        !.limit = IF TruthyInt(a.limit) THEN Val(a.limit) ELSE @,
        !.offset = IF TruthyInt(a.offset) THEN Val(a.offset) ELSE @,
        !.currency_code =
            IF TruthySeq(a.currency_code) THEN Val(a.currency_code) ELSE @]

\* what one tool invocation has done so far
NoRun ==
    [err |-> "", observed |-> {}, cred |-> NoCredential,
     client |-> FALSE, sent |-> None]

\* create_data_api_client(): resolve the credential from the holder, then
\* construct the client
create_data_api_client(token, ambientOk) ==
    LET r == _create_credentials(token, ambientOk) IN
    [NoRun EXCEPT !.err = r.err,
                  !.observed = {token},
                  !.cred = r.cred,
                  !.client = (r.err = "")]

\* a run_report that creates the client before it constructs the request
run_report_client_first(a, token, ambientOk) ==
    LET made == create_data_api_client(token, ambientOk)
        rn == construct_property_rn(a.property_id)
    IN  IF made.err # "" THEN made
        ELSE IF ~rn.ok THEN [made EXCEPT !.err = rn.err]
        ELSE [made EXCEPT !.sent =
                Some(WithOptionalFields(BaseRequest(rn.rn, a), a))]

\* run_report(**a) from its first statement to its await: the property is
\* normalized while the request is constructed, the optional fields are
\* assigned, then the client is created and the request handed to it
run_report(a, token, ambientOk) ==
    LET rn == construct_property_rn(a.property_id) IN
    IF ~rn.ok THEN [NoRun EXCEPT !.err = rn.err]
    ELSE
        LET request == WithOptionalFields(BaseRequest(rn.rn, a), a)
            made == create_data_api_client(token, ambientOk)
        IN  IF made.err # "" THEN made
            ELSE [made EXCEPT !.sent = Some(request)]

---------------------------------------------------------------------------
(* Inputs of the HTTP front door *)

BearerPrefix == <<"B", "e", "a", "r", "e", "r", " ">>

\* request.headers.get("Authorization", ""): an absent header reads as ""
Headers ==
    { <<>>,
      <<"B", "e", "a", "r", "e", "r">>,
      <<"b", "e", "a", "r", "e", "r", " ", "A">>,
      BearerPrefix,
      BearerPrefix \o <<"A">>,
      BearerPrefix \o <<"B">> }

\* arguments of a run_report invocation
Args(pid, dims, mets, drs, df, mf, obs, lim, off, cur, quota) ==
    [property_id |-> pid, dimensions |-> dims, metrics |-> mets,
     date_ranges |-> drs, dimension_filter |-> df, metric_filter |-> mf,
     order_bys |-> obs, limit |-> lim, offset |-> off,
     currency_code |-> cur, return_property_quota |-> quota]

January == [start_date |-> "2024-01-01", end_date |-> "2024-01-31"]
February == [start_date |-> "2024-02-01", end_date |-> "2024-02-29"]

\* only the four required arguments, every optional one at its default
RequiredOnly(pid, dims, mets, drs) ==
    Args(pid, dims, mets, drs, None, None, None, None, None, None, FALSE)

\* the invocations sent through the front door
EndpointArgs ==
    { RequiredOnly(pid, <<"city">>, <<"activeUsers">>, <<January>>) :
        pid \in { StrArg(PropertiesPrefix \o <<"5">>),
                  StrArg(<<"a", "b", "c">>) } }

\* params["arguments"]: absent, a mapping with a keyword run_report does not
\* take, or a mapping of its parameters
ArgumentsMissing == [kind |-> "missing", args |-> None]
ArgumentsUnexpected == [kind |-> "unexpected", args |-> None]
ArgumentsOk(a) == [kind |-> "ok", args |-> Some(a)]

ArgumentsInputs ==
    {ArgumentsMissing, ArgumentsUnexpected}
        \cup {ArgumentsOk(a) : a \in EndpointArgs}

\* body["params"]: absent, not a mapping, or a mapping whose "name" is
\* absent (None) or a string
ParamsMissing == [kind |-> "missing", name |-> None, arguments |-> ArgumentsMissing]
ParamsNotMapping == [kind |-> "notmapping", name |-> None, arguments |-> ArgumentsMissing]
ParamsObject(name, arguments) ==
    [kind |-> "object", name |-> name, arguments |-> arguments]

ParamsInputs ==
    {ParamsMissing, ParamsNotMapping}
        \cup {ParamsObject(n, ArgumentsMissing) :
                n \in {None, Some(""), Some("no_such_tool")}}
        \cup {ParamsObject(Some("run_report"), g) : g \in ArgumentsInputs}

\* what `await request.json()` yields: a decoding error, a JSON value that is
\* not an object, or an object whose "method" reads "" when absent
BodyUnparseable == [kind |-> "unparseable", method |-> "", params |-> ParamsMissing]
BodyNotObject == [kind |-> "notobject", method |-> "", params |-> ParamsMissing]
BodyObject(method, params) ==
    [kind |-> "object", method |-> method, params |-> params]

Bodies ==
    {BodyUnparseable, BodyNotObject}
        \cup {BodyObject(m, ParamsMissing) :
                m \in {"", "tools/list", "initialize"}}
        \cup {BodyObject("tools/call", q) : q \in ParamsInputs}

\* mcp._tool_manager._tools, as far as the sources register it
Catalog == {"run_report"}

---------------------------------------------------------------------------
(* mcp_endpoint *)

JSONResponse(status, error) == [kind |-> "json", status |-> status, error |-> error]
NoResponse == [kind |-> "none", status |-> 0, error |-> ""]
Cancelled == [kind |-> "cancelled", status |-> 0, error |-> ""]
Raised(e) == [kind |-> "raised", status |-> 0, error |-> e]
ReturnedDict == [kind |-> "returned", status |-> 0, error |-> ""]

\* the body of the try block from the parsed body on: how it leaves
\* ("return", "raise" or "await" at the tool's outbound call), and what the
\* tool did on the way
TryBody(body, token, ambientOk) ==
    LET Return(status, error) ==
            [exit |-> "return", status |-> status, error |-> error,
             args |-> None, run |-> NoRun]
        Raise(e) ==
            [exit |-> "raise", status |-> 0, error |-> e,
             args |-> None, run |-> NoRun]
    IN
    IF body.kind = "unparseable" THEN Raise("JSONDecodeError")
    ELSE IF body.kind = "notobject" THEN Raise("AttributeError")
    ELSE IF body.method = "tools/list" THEN Return(200, "")
    ELSE IF body.method = "tools/call" THEN
        IF body.params.kind = "notmapping" THEN Raise("AttributeError")
        ELSE
            LET tool_name == body.params.name
                arguments == body.params.arguments
            IN
            IF IsNone(tool_name) \/ Val(tool_name) = ""
            THEN Return(400, "Missing tool name")
            ELSE IF Val(tool_name) \notin Catalog
            THEN Return(404, "Unknown tool")
            ELSE IF arguments.kind # "ok" THEN Raise("TypeError")
            ELSE
                LET a == Val(arguments.args)
                    r == run_report(a, token, ambientOk)
                IN  [exit |-> IF r.err # "" THEN "raise" ELSE "await",
                     status |-> 0, error |-> r.err,
                     args |-> Some(a), run |-> r]
    ELSE IF body.method = "initialize" THEN Return(200, "")
    ELSE Return(400, "Unknown method")

\* the `except Exception` clause
ExceptException(e) == JSONResponse(500, e)

\* the `finally` clause
Finally(c, w) == clear_access_token(c, w)

\* a CancelledError thrown at an await is no Exception: only the `finally`
\* clause runs
\* cleanup that runs on return and on Exception only
OnCancelSkipsFinally(c, w) == c

OnCancel(c, w) == Finally(c, w)

\* The record of one call.  `prior` tells how the last call that set a token
\* in the same context ended, "" when there was none.
NoCall ==
    [mode |-> "none", prior |-> "", header |-> None, setTok |-> None,
     body |-> None, args |-> None, run |-> NoRun]

Ended(r) ==
    IF r.kind = "cancelled" THEN "cancelled"
    ELSE IF r.kind = "json" /\ r.status = 200 THEN "succeeded"
    ELSE "failed"

\* the record a call starting in context w begins with
NewCall(w, mode) ==
    [NoCall EXCEPT !.mode = mode,
                   !.prior = IF IsNone(call[w].setTok) THEN call[w].prior
                             ELSE Ended(resp[w])]

Init ==
    /\ rnArg = OtherArg
    /\ rnRes = Pending
    /\ queued = None
    /\ adc \in BOOLEAN
    /\ ctx = [w \in Workers |-> None]
    /\ pc = [w \in Workers |-> "idle"]
    /\ call = [w \in Workers |-> NoCall]
    /\ resp = [w \in Workers |-> NoResponse]

\* A request arrives in context w: the header check, set_access_token and
\* the start of `await request.json()`
Receive(w) ==
    /\ pc[w] = "idle"
    /\ \E auth_header \in Headers :
        IF ~startswith(auth_header, BearerPrefix) THEN
            /\ resp' = [resp EXCEPT ![w] = JSONResponse(401, "Missing or invalid Authorization header")]
            /\ call' = [call EXCEPT ![w] =
                            [NewCall(w, "http") EXCEPT
                                !.header = Some(auth_header)]]
            /\ UNCHANGED <<ctx, pc>>
        ELSE
            LET access_token == SubSeq(auth_header, 8, Len(auth_header)) IN
            /\ ctx' = set_access_token(ctx, w, access_token)
            /\ call' = [call EXCEPT ![w] =
                            [NewCall(w, "http") EXCEPT
                                !.header = Some(auth_header),
                                !.setTok = Some(access_token)]]
            /\ resp' = [resp EXCEPT ![w] = NoResponse]
            /\ pc' = [pc EXCEPT ![w] = "await_json"]
    /\ UNCHANGED <<rnArg, rnRes, queued, adc>>

\* `await request.json()` completes and the handler runs to its next await
\* or to its end
JsonDone(w) ==
    /\ pc[w] = "await_json"
    /\ \E body \in Bodies :
        LET t == TryBody(body, get_access_token(ctx, w), adc)
            c == [call[w] EXCEPT !.body = Some(body), !.args = t.args,
                                 !.run = t.run]
        IN
        /\ call' = [call EXCEPT ![w] = c]
        /\ IF t.exit = "await" THEN
                /\ pc' = [pc EXCEPT ![w] = "await_tool"]
                /\ UNCHANGED <<ctx, resp>>
           ELSE
                /\ resp' = [resp EXCEPT ![w] =
                                IF t.exit = "raise"
                                THEN ExceptException(t.error)
                                ELSE JSONResponse(t.status, t.error)]
                /\ ctx' = Finally(ctx, w)
                /\ pc' = [pc EXCEPT ![w] = "idle"]
    /\ UNCHANGED <<rnArg, rnRes, queued, adc>>

\* the outbound run_report call completes: a response, converted and
\* returned, or an error of the external API
ToolDone(w) ==
    /\ pc[w] = "await_tool"
    /\ \E upstream \in {"", "GoogleAPICallError"} :
        resp' = [resp EXCEPT ![w] =
                    IF upstream # "" THEN ExceptException(upstream)
                    ELSE JSONResponse(200, "")]
    /\ ctx' = Finally(ctx, w)
    /\ pc' = [pc EXCEPT ![w] = "idle"]
    /\ UNCHANGED <<rnArg, rnRes, queued, adc, call>>

\* the transport cancels the call while it is suspended
Cancel(w) ==
    /\ pc[w] \in {"await_json", "await_tool"}
    /\ ctx' = OnCancel(ctx, w)
    /\ resp' = [resp EXCEPT ![w] = Cancelled]
    /\ pc' = [pc EXCEPT ![w] = "idle"]
    /\ UNCHANGED <<rnArg, rnRes, queued, adc, call>>

\* run_report invoked in context w without the front door (the stdio
\* transport): nothing sets or clears the holder
DirectCall(w, argset) ==
    /\ pc[w] = "idle"
    /\ \E a \in argset :
        LET r == run_report(a, get_access_token(ctx, w), adc) IN
        /\ call' = [call EXCEPT ![w] =
                        [NewCall(w, "direct") EXCEPT !.args = Some(a),
                                                     !.run = r]]
        /\ IF r.err # "" THEN
                /\ resp' = [resp EXCEPT ![w] = Raised(r.err)]
                /\ UNCHANGED pc
           ELSE
                /\ resp' = [resp EXCEPT ![w] = NoResponse]
                /\ pc' = [pc EXCEPT ![w] = "await_direct"]
    /\ queued' = None
    /\ UNCHANGED <<rnArg, rnRes, adc, ctx>>

\* the outbound call of a direct invocation completes or is cancelled
DirectDone(w) ==
    /\ pc[w] = "await_direct"
    /\ \E r \in {ReturnedDict, Raised("GoogleAPICallError"), Cancelled} :
        resp' = [resp EXCEPT ![w] = r]
    /\ pc' = [pc EXCEPT ![w] = "idle"]
    /\ UNCHANGED <<rnArg, rnRes, queued, adc, ctx, call>>

Next ==
    \E w \in Workers :
        \/ Receive(w)
        \/ JsonDone(w)
        \/ ToolDone(w)
        \/ Cancel(w)
        \/ DirectCall(w, EndpointArgs)
        \/ DirectDone(w)

Spec == Init /\ [][Next]_vars

---------------------------------------------------------------------------
(* Specification of run_report alone: one invocation per behaviour, its    *)
(* arguments drawn from every combination of the optional arguments        *)

EmptyMapping == <<>>
CityFilter == <<"filter:city">>
UsersFilter == <<"filter:activeUsers">>
ByUsers == <<"metric:activeUsers">>
ByCity == <<"dimension:city">>
USD == <<"U", "S", "D">>

ReportArgs ==
    { Args(pid, dims, <<"activeUsers", "sessions">>, <<January, February>>,
           df, mf, obs, lim, off, cur, quota) :
        pid \in { StrArg(PropertiesPrefix \o <<"5">>), IntArg(5),
                  StrArg(<<"a", "b", "c">>) },
        dims \in { <<"city">>, <<"country", "city">> },
        df \in { None, Some(EmptyMapping), Some(CityFilter) },
        mf \in { None, Some(EmptyMapping), Some(UsersFilter) },
        obs \in { None, Some(<<>>), Some(<<ByUsers, ByCity>>) },
        lim \in { None, Some(0), Some(5), Some(-1) },
        off \in { None, Some(0), Some(7) },
        cur \in { None, Some(<<>>), Some(USD) },
        quota \in BOOLEAN }

InitReport ==
    /\ rnArg = OtherArg
    /\ rnRes = Pending
    /\ queued \in {Some(a) : a \in ReportArgs}
    /\ adc \in BOOLEAN
    /\ ctx = [w \in Workers |-> None]
    /\ pc = [w \in Workers |-> "idle"]
    /\ call = [w \in Workers |-> NoCall]
    /\ resp = [w \in Workers |-> NoResponse]

NextReport ==
    \E w \in {"w1"} :
        \/ DirectCall(w, IF IsNone(queued) THEN {} ELSE {Val(queued)})
        \/ DirectDone(w)

SpecReport == InitReport /\ [][NextReport]_vars

---------------------------------------------------------------------------
(* Properties *)

TokenA == <<"A">>
TokenB == <<"B">>

Suspended(w) == pc[w] \in {"await_json", "await_tool"}

\* the call in context w came through mcp_endpoint and set a token
SetToken(w) == call[w].mode = "http" /\ ~IsNone(call[w].setTok)

\* C1: isolation of concurrent calls.  Whatever the interleaving of the
\* calls' suspension points, every get_access_token made during a call that
\* set a token returns that call's token, the credential it resolves wraps
\* no other call's token, and while the call is suspended its slot still
\* holds its token: no other call's set or clear reaches it.
C1_Isolation ==
    \A w \in Workers :
        SetToken(w) =>
            /\ \A t \in call[w].run.observed : t = call[w].setTok
            /\ call[w].run.cred.kind = "oauth" =>
                    call[w].run.cred.token = Val(call[w].setTok)
            /\ Suspended(w) => get_access_token(ctx, w) = call[w].setTok

\* two calls with different tokens are suspended together, one of them
\* having resolved its credential from its own token
C1_Witness ==
    /\ pc["w1"] = "await_tool"
    /\ pc["w2"] = "await_json"
    /\ call["w1"].setTok = Some(TokenA)
    /\ call["w2"].setTok = Some(TokenB)
    /\ call["w1"].run.observed = {Some(TokenA)}
    /\ call["w1"].run.cred.token = TokenA

\* C2: no token survives a call.  Whenever no call runs in a context its
\* slot holds None, so the next call starts with get_access_token() = None;
\* and a call that sets no token, also one that follows a call that set one
\* in the same context, observes None and resolves the ambient credentials,
\* never a token.
C2_NoLeftoverToken ==
    \A w \in Workers :
        /\ pc[w] = "idle" => get_access_token(ctx, w) = None
        /\ call[w].mode = "direct" =>
            /\ call[w].run.observed \subseteq {None}
            /\ call[w].run.cred.kind \in {"none", "adc"}
            /\ (call[w].run.observed # {} /\ adc) =>
                    call[w].run.cred.kind = "adc"

\* a call that sets no token has resolved the ambient credentials in a
\* context whose previous call set a token and failed
C2_Witness ==
    /\ call["w1"].mode = "direct"
    /\ call["w1"].prior = "failed"
    /\ call["w1"].run.observed = {None}
    /\ call["w1"].run.cred.kind = "adc"
    /\ pc["w1"] = "await_direct"

\* C3: the clearing step runs on every exit path.  Every step that ends a
\* call in which mcp_endpoint set a token (a return, an early error return,
\* an exception turned into a 500, a cancellation at an await) leaves that
\* call's slot cleared.
C3_ClearedOnEveryExit ==
    [][\A w \in Workers :
          (SetToken(w) /\ Suspended(w) /\ pc'[w] = "idle") =>
              /\ get_access_token(ctx, w) = call[w].setTok
              /\ get_access_token(ctx', w) = None]_vars

\* a call was cancelled while its outbound API call was in flight, and its
\* slot is clear
C3_Witness ==
    /\ SetToken("w1")
    /\ call["w1"].setTok = Some(TokenA)
    /\ ~IsNone(call["w1"].run.sent)
    /\ resp["w1"] = Cancelled
    /\ pc["w1"] = "idle"
    /\ ctx["w1"] = None

\* The accepted shapes of a property, as the specification words them: a
\* non-negative integer, a string of decimal digits, or "properties/"
\* followed by decimal digits (surrounding blanks are not counted against
\* a string).
AllDecimal(s) == Len(s) > 0 /\ \A i \in 1..Len(s) : IsDecimal(s[i])

AfterPrefix(s) == SubSeq(s, Len(PropertiesPrefix) + 1, Len(s))

ValidShape(v) ==
    \/ v.kind = "int" /\ v.num >= 0
    \/ /\ v.kind = "str"
       /\ LET s == strip(v.text) IN
            \/ AllDecimal(s)
            \/ startswith(s, PropertiesPrefix) /\ AllDecimal(AfterPrefix(s))

\* the number a valid property denotes
Denoted(v) ==
    IF v.kind = "int" THEN v.num
    ELSE LET s == strip(v.text) IN
         IF AllDecimal(s) THEN DecimalValue(s)
         ELSE DecimalValue(AfterPrefix(s))

\* a numeral without sign or leading zero
Canonical(t) == AllDecimal(t) /\ (Len(t) = 1 \/ t[1] # "0")

\* C4: every property that has none of the accepted shapes is rejected
\* with ValueError and no resource name is returned.
C4_InvalidRejected ==
    (rnRes # Pending /\ ~ValidShape(rnArg)) => rnRes = ValueError

\* C5: for every property of an accepted shape denoting n the normalizer
\* returns "properties/" followed by the numeral of n, without sign or
\* leading zeros, so that the integer and both string forms of one n give
\* the same resource name.
C5_ValidNormalized ==
    (rnRes # Pending /\ ValidShape(rnArg)) =>
        /\ rnRes.ok
        /\ startswith(rnRes.rn, PropertiesPrefix)
        /\ Canonical(AfterPrefix(rnRes.rn))
        /\ DecimalValue(AfterPrefix(rnRes.rn)) = Denoted(rnArg)

\* the string "properties/07" has been normalized to "properties/7"
C5_Witness ==
    /\ rnArg = StrArg(PropertiesPrefix \o <<"0", "7">>)
    /\ rnRes = Returned(PropertiesPrefix \o <<"7">>)

\* C6: the resolver decides on the holder's value alone.  Whenever the
\* token it read is not None the credential wraps exactly that token with
\* the read-only scope and ambient discovery is not consulted; whenever it
\* is None the ambient credentials are requested with that scope.
C6_ResolverFollowsHolder ==
    \A w \in Workers :
        \A t \in call[w].run.observed :
            LET cred == call[w].run.cred IN
            IF ~IsNone(t) THEN
                /\ cred.kind = "oauth"
                /\ cred.token = Val(t)
                /\ cred.scopes = {READ_ONLY_ANALYTICS_SCOPE}
                /\ ~cred.ambient
            ELSE
                /\ cred.ambient
                /\ call[w].run.err = "" =>
                    /\ cred.kind = "adc"
                    /\ cred.scopes = {READ_ONLY_ANALYTICS_SCOPE}

\* The failure classes of an inbound call, read off the request alone.
KnownMethods == {"tools/list", "tools/call", "initialize"}

NamesTool(b) ==
    /\ b.kind = "object"
    /\ b.method = "tools/call"
    /\ b.params.kind # "notmapping"
    /\ ~IsNone(b.params.name)
    /\ Val(b.params.name) # ""

UnknownOperation(b) == NamesTool(b) /\ Val(b.params.name) \notin Catalog

MalformedCall(b) ==
    \/ b.kind \in {"unparseable", "notobject"}
    \/ b.method \notin KnownMethods
    \/ /\ b.method = "tools/call"
       /\ \/ ~NamesTool(b)
          \/ /\ Val(b.params.name) \in Catalog
             /\ \/ b.params.arguments.kind # "ok"
                \/ ~ValidShape(Val(b.params.arguments.args).property_id)

\* C7: each failing call is answered with the status of its failure class:
\* 401 without a "Bearer " header, 400 for a malformed call, 404 for an
\* operation that is not in the catalog, and 500 for nothing but an
\* unhandled failure.
C7_StatusByFailureClass ==
    \A w \in Workers :
        (call[w].mode = "http" /\ resp[w].kind = "json") =>
            /\ ~startswith(Val(call[w].header), BearerPrefix) =>
                    resp[w].status = 401
            /\ ~IsNone(call[w].body) =>
                LET b == Val(call[w].body) IN
                /\ MalformedCall(b) => resp[w].status = 400
                /\ UnknownOperation(b) => resp[w].status = 404
                /\ resp[w].status = 500 =>
                        ~MalformedCall(b) /\ ~UnknownOperation(b)

\* C8: with no token to use and no ambient identity, credential resolution
\* fails with DefaultCredentialsError, nothing is sent to the API, and the
\* failure is what the caller gets: the exception out of run_report, an
\* error response over HTTP.  (Over HTTP the holder then holds the empty
\* token of a bare "Bearer " header.)
C8_AuthenticationUnavailable ==
    \A w \in Workers :
        \A t \in call[w].run.observed :
            (~Truthy(t) /\ ~adc) =>
                /\ call[w].run.err = "DefaultCredentialsError"
                /\ call[w].run.cred.kind = "none"
                /\ ~call[w].run.client
                /\ IsNone(call[w].run.sent)
                /\ pc[w] = "idle"
                /\ call[w].mode = "direct" =>
                        resp[w] = Raised("DefaultCredentialsError")
                /\ call[w].mode = "http" =>
                        resp[w] = JSONResponse(500, "DefaultCredentialsError")

\* without ambient credentials, a direct invocation raised and an HTTP
\* call with an empty bearer token was answered with the error
C8_Witness ==
    /\ ~adc
    /\ call["w1"].mode = "direct"
    /\ call["w1"].run.observed = {None}
    /\ resp["w1"] = Raised("DefaultCredentialsError")
    /\ call["w2"].mode = "http"
    /\ call["w2"].run.observed = {Some(<<>>)}
    /\ resp["w2"] = JSONResponse(500, "DefaultCredentialsError")

\* Which optional fields a request carries: a message field when present,
\* a repeated field when non-empty, a scalar when not its default.
FieldsSet(q) ==
    [dimension_filter |-> ~IsNone(q.dimension_filter),
     metric_filter |-> ~IsNone(q.metric_filter),
     order_bys |-> q.order_bys # <<>>,
     limit |-> q.limit # 0,
     offset |-> q.offset # 0,
     currency_code |-> q.currency_code # <<>>,
     return_property_quota |-> q.return_property_quota]

\* Which optional arguments the caller gave a value other than the
\* parameter's default (None, and False for return_property_quota).  A
\* request cannot tell an empty list, an empty string or a zero from a field
\* never assigned, so for those the value is what counts.
SuppliedNonDefault(a) ==
    [dimension_filter |-> ~IsNone(a.dimension_filter),
     metric_filter |-> ~IsNone(a.metric_filter),
     order_bys |-> a.order_bys \notin {None, Some(<<>>)},
     limit |-> a.limit \notin {None, Some(0)},
     offset |-> a.offset \notin {None, Some(0)},
     currency_code |-> a.currency_code \notin {None, Some(<<>>)},
     return_property_quota |-> a.return_property_quota]

\* Which optional arguments the caller gave a value that is neither the
\* default nor empty nor zero.
SuppliedNonEmpty(a) ==
    [dimension_filter |-> a.dimension_filter \notin {None, Some(<<>>)},
     metric_filter |-> a.metric_filter \notin {None, Some(<<>>)},
     order_bys |-> a.order_bys \notin {None, Some(<<>>)},
     limit |-> a.limit \notin {None, Some(0)},
     offset |-> a.offset \notin {None, Some(0)},
     currency_code |-> a.currency_code \notin {None, Some(<<>>)},
     return_property_quota |-> a.return_property_quota]

\* the request carries exactly the caller's dimensions, metrics and date
\* ranges, in order
RequiredCarried(q, a) ==
    /\ Len(q.dimensions) = Len(a.dimensions)
    /\ \A i \in 1..Len(a.dimensions) : q.dimensions[i].name = a.dimensions[i]
    /\ Len(q.metrics) = Len(a.metrics)
    /\ \A i \in 1..Len(a.metrics) : q.metrics[i].name = a.metrics[i]
    /\ Len(q.date_ranges) = Len(a.date_ranges)
    /\ \A i \in 1..Len(a.date_ranges) :
          /\ q.date_ranges[i].start_date = a.date_ranges[i].start_date
          /\ q.date_ranges[i].end_date = a.date_ranges[i].end_date

\* every supplied limit and offset is the request's limit and offset
PagingCarried(q, a) ==
    /\ ~IsNone(a.limit) => q.limit = Val(a.limit)
    /\ ~IsNone(a.offset) => q.offset = Val(a.offset)

Sent(w) == ~IsNone(call[w].args) /\ ~IsNone(call[w].run.sent)

\* C9 as claimed: an optional field is set if and only if the caller
\* supplied the argument with a non-default value; the required arguments
\* are carried in order and every supplied limit or offset unchanged.
C9_SetIffSupplied ==
    \A w \in Workers :
        Sent(w) =>
            LET q == Val(call[w].run.sent)
                a == Val(call[w].args)
            IN  /\ FieldsSet(q) = SuppliedNonDefault(a)
                /\ RequiredCarried(q, a)
                /\ PagingCarried(q, a)

\* C9 as amended: an optional field is set if and only if the caller
\* supplied a value that is neither None nor empty nor zero nor False, and
\* then it carries that value; an empty filter mapping, an empty order_bys
\* list, an empty currency code and a zero limit or offset leave the field
\* unset.  The required arguments are carried exactly and in order, and
\* every supplied limit or offset is the value the request holds.
C9_SetIffNonEmpty ==
    \A w \in Workers :
        Sent(w) =>
            LET q == Val(call[w].run.sent)
                a == Val(call[w].args)
                set == FieldsSet(q)
            IN  /\ set = SuppliedNonEmpty(a)
                /\ RequiredCarried(q, a)
                /\ PagingCarried(q, a)
                /\ set.dimension_filter =>
                      Val(q.dimension_filter).expression = Val(a.dimension_filter)
                /\ set.metric_filter =>
                      Val(q.metric_filter).expression = Val(a.metric_filter)
                /\ set.order_bys =>
                      /\ Len(q.order_bys) = Len(Val(a.order_bys))
                      /\ \A i \in 1..Len(q.order_bys) :
                            q.order_bys[i].order = Val(a.order_bys)[i]
                /\ set.currency_code => q.currency_code = Val(a.currency_code)

\* a request went out for a call that supplied an empty dimension filter, a
\* zero limit and an offset of 7: it carries the offset alone
C9_Witness ==
    /\ Sent("w1")
    /\ Val(call["w1"].args).dimension_filter = Some(EmptyMapping)
    /\ Val(call["w1"].args).limit = Some(0)
    /\ Val(call["w1"].args).offset = Some(7)
    /\ Val(call["w1"].args).metric_filter = Some(UsersFilter)
    /\ IsNone(Val(call["w1"].run.sent).dimension_filter)
    /\ Val(call["w1"].run.sent).offset = 7
    /\ Val(call["w1"].run.sent).metric_filter = Some(FilterExpression(UsersFilter))

\* C10: the property is normalized first.  An invocation whose property the
\* normalizer rejects ends with that ValueError having read no token,
\* resolved no credential, created no client and sent nothing; and every
\* request that is sent names the normalizer's output as its property.
C10_NormalizedFirst ==
    \A w \in Workers :
        ~IsNone(call[w].args) =>
            LET n == construct_property_rn(Val(call[w].args).property_id)
                r == call[w].run
            IN  /\ ~n.ok =>
                    /\ r.err = "ValueError"
                    /\ r.observed = {}
                    /\ r.cred = NoCredential
                    /\ ~r.client
                    /\ IsNone(r.sent)
                    /\ pc[w] = "idle"
                    /\ resp[w] = Raised("ValueError")
                /\ ~IsNone(r.sent) => n.ok /\ Val(r.sent).property = n.rn

\* an invocation with the property "abc" has ended with ValueError where
\* ambient credentials were not even available
C10_Witness ==
    /\ ~adc
    /\ ~IsNone(call["w1"].args)
    /\ Val(call["w1"].args).property_id = StrArg(<<"a", "b", "c">>)
    /\ resp["w1"] = Raised("ValueError")
    /\ call["w1"].run.observed = {}

\* what follows "Bearer " in an Authorization header
BearerTokenOf(h) == SubSeq(h, Len(BearerPrefix) + 1, Len(h))

\* C11: in HTTP mode every tool invocation whose request passed the
\* Authorization check resolves its credential from the bearer token that
\* request carried, and never from the server's ambient credentials,
\* whatever follows "Bearer " in the header, the empty token included.
C11_BearerTokenAlwaysUsed ==
    \A w \in Workers :
        ( /\ call[w].mode = "http"
          /\ ~IsNone(call[w].header)
          /\ startswith(Val(call[w].header), BearerPrefix)
          /\ call[w].run.observed # {} ) =>
            /\ call[w].run.cred.kind = "oauth"
            /\ call[w].run.cred.token = BearerTokenOf(Val(call[w].header))
            /\ ~call[w].run.cred.ambient

====
